---- MODULE Spec2Model ----
(***************************************************************************)
(* Model of gr_tools/run_sim.py: run_file_source and run_msg_source wire a *)
(* caller-supplied component between a source and a head (limiter) +       *)
(* file sink, and drive the flowgraph.  The caller's thread is modelled    *)
(* statement by statement (pc); the blocks the module instantiates         *)
(* (file_source, message_strobe, head, file_sink) run concurrently with    *)
(* it, one item per step, while the top block is running.                  *)
(***************************************************************************)
EXTENDS Integers, Sequences, FiniteSets

\* ---------------------------------------------------------------- bounds
MaxItems == 2       \* largest out_spec["n_items"] tried
MaxFileLen == 3     \* largest input file, in items
MaxPort == 1        \* component ports are 0..MaxPort
BufCap == 1         \* items an inter-block buffer holds
MaxPerMsg == 2      \* items the component emits per received message
MaxQueue == 1       \* messages pending at the component
MaxSleeps == 2      \* sleeps of the polling loop that are counted

\* ------------------------------------------------------- module constants
\* DTYPE: the element type tags the module maps to an item size.
DTYPE == {"BYTE", "FLOAT", "COMPLEX", "SHORT", "INT"}

\* the tags tried: one of DTYPE and one that is no item size
TypeTags == {"COMPLEX", "DOUBLE"}

Ports == 0..MaxPort

\* connections=None, or a tuple (port on input, port on output)
None == <<>>
ConnectionArgs == {None} \cup (Ports \X Ports)

\* the multiplier of blocks.multiply_const_cc(c), the component of the example
Gains == {1, 3}

VARIABLES
    fn,            \* entry point called: "run_file_source" | "run_msg_source"
    file_spec,     \* [type, len, repeat]: the input file holds items 1..len
    out_spec,      \* [type, n_items]
    component,     \* [gain, per_msg]
    connections,   \* None or <<p_in, p_out>>
    pc,            \* statement the caller's thread is at
    err,           \* exception propagated to the caller, "" if none
    edges,         \* edges of the top block
    running,       \* top block started and neither stopped nor waited for
    src_pos,       \* items the file source has read since the last rewind
    src_buf,       \* file source -> component
    msg_queue,     \* messages pending at the component's message port
    comp_pending,  \* items the component still owes for a handled message
    comp_buf,      \* component -> head
    head_written,  \* head.nitems_written(0)
    head_buf,      \* head -> file sink
    out_exists,    \* the file at out_spec["path"] has been created
    out_file,      \* its items
    sleeps         \* time.sleep calls made by the polling loop (capped)

args == <<fn, file_spec, out_spec, component, connections>>
caller == <<pc, err, edges, running, sleeps>>
flow == <<src_pos, src_buf, msg_queue, comp_pending, comp_buf, head_written, head_buf>>
sink == <<out_exists, out_file>>
vars == <<args, caller, flow, sink>>

\* ------------------------------------------------------------ endpoints
\* An endpoint is <<block, port>>; a bare block means its port 0.
Endpoint(x) == IF Len(x) = 1 THEN <<x[1], 0>> ELSE x

Edge(kind, from, to) == [kind |-> kind, src |-> Endpoint(from), dst |-> Endpoint(to)]

RECURSIVE Chain(_)
\* top.connect(a, b, c, ...): consecutive blocks joined port 0 to port 0
Chain(blocks) ==
    IF Len(blocks) < 2 THEN {}
    ELSE {Edge("stream", <<blocks[1]>>, <<blocks[2]>>)} \cup Chain(Tail(blocks))

\* ------------------------------------------------------ statement order
\* variant: the file sink constructed before the file source and the head
FileStmtsSinkFirst ==
    <<"file_sink", "file_source", "head", "connect", "run", "wait", "done">>

\* The statements of run_file_source, in program order; "wait" is the
\* blocking half of top.run.
FileStmts ==
    <<"file_source", "head", "file_sink", "connect", "run", "wait", "done">>

\* variant: the graph started before it is wired
MsgStmtsStartFirst ==
    <<"message_strobe", "head", "file_sink", "start", "connect", "poll",
      "return", "done">>

\* The statements of run_msg_source, in program order.
MsgStmts ==
    <<"message_strobe", "head", "file_sink", "connect", "start", "poll",
      "return", "done">>

Stmts == IF fn = "run_file_source" THEN FileStmts ELSE MsgStmts

Index(seq, x) == CHOOSE i \in 1..Len(seq) : seq[i] = x

\* the statement after p
Succ(p) == Stmts[Index(Stmts, p) + 1]

Raise(e) == pc' = "raised" /\ err' = e

\* --------------------------------------------------------------- inputs
FileSpecs ==
    [type : TypeTags, len : 0..MaxFileLen, repeat : BOOLEAN]

OutSpecs == [type : TypeTags, n_items : 1..MaxItems]

Init ==
    /\ fn \in {"run_file_source", "run_msg_source"}
    /\ out_spec \in OutSpecs
    /\ connections \in ConnectionArgs
    /\ IF fn = "run_file_source"
       THEN /\ file_spec \in FileSpecs
            /\ component \in [gain : Gains, per_msg : {0}]
       ELSE /\ file_spec = [type |-> "BYTE", len |-> 0, repeat |-> TRUE]
            /\ component \in [gain : {1}, per_msg : 0..MaxPerMsg]
    /\ pc = Stmts[1]
    /\ err = ""
    /\ edges = {}
    /\ running = FALSE
    /\ sleeps = 0
    /\ src_pos = 0
    /\ src_buf = <<>>
    /\ msg_queue = 0
    /\ comp_pending = 0
    /\ comp_buf = <<>>
    /\ head_written = 0
    /\ head_buf = <<>>
    /\ out_exists = FALSE
    /\ out_file = <<>>

\* ------------------------------------------------- the caller's thread
\* blocks.file_source(type, path, repeat): the type must be an item size;
\* an empty file is either rejected by the constructor or accepted,
\* depending on the runtime's version.
NewFileSource ==
    /\ pc = "file_source"
    /\ \/ /\ file_spec.type \notin DTYPE
          /\ Raise("TypeError")
       \/ /\ file_spec.type \in DTYPE
          /\ file_spec.len = 0
          /\ Raise("RuntimeError")
       \/ /\ file_spec.type \in DTYPE
          /\ pc' = Succ(pc)
          /\ err' = err
    /\ UNCHANGED <<args, edges, running, sleeps, flow, sink>>

\* blocks.message_strobe(pmt.intern(message), period)
NewMessageStrobe ==
    /\ pc = "message_strobe"
    /\ pc' = Succ(pc)
    /\ UNCHANGED <<args, err, edges, running, sleeps, flow, sink>>

\* blocks.head(type, n_items)
NewHead ==
    /\ pc = "head"
    /\ \/ /\ out_spec.type \notin DTYPE
          /\ Raise("TypeError")
       \/ /\ out_spec.type \in DTYPE
          /\ pc' = Succ(pc)
          /\ err' = err
    /\ UNCHANGED <<args, edges, running, sleeps, flow, sink>>

\* blocks.file_sink(type, path): opens (creates, truncates) the file
NewFileSink ==
    /\ pc = "file_sink"
    /\ IF out_spec.type \notin DTYPE
       THEN Raise("TypeError") /\ UNCHANGED sink
       ELSE /\ pc' = Succ(pc)
            /\ err' = err
            /\ out_exists' = TRUE
            /\ out_file' = <<>>
    /\ UNCHANGED <<args, edges, running, sleeps, flow>>

\* variant: the positional connect without the file sink
DefaultEdgesNoSink == Chain(<<"file_src", "component", "head">>)

\* top.connect(file_src, component, head, file_sink)

DefaultEdges == Chain(<<"file_src", "component", "head", "file_sink">>)

\* variant: the two elements of the descriptor exchanged
ExplicitEdgesSwapped(conn) ==
    { Edge("stream", <<"file_src">>, <<"component", conn[2]>>),
      Edge("stream", <<"component", conn[1]>>, <<"head">>),
      Edge("stream", <<"head">>, <<"file_sink">>) }

\* the three connects of the else branch of run_file_source
ExplicitEdges(conn) ==
    { Edge("stream", <<"file_src">>, <<"component", conn[1]>>),
      Edge("stream", <<"component", conn[2]>>, <<"head">>),
      Edge("stream", <<"head">>, <<"file_sink">>) }

\* the msg_connect and the two connects of run_msg_source
MsgEdges(conn) ==
    { Edge("msg", <<"source", "strobe">>, <<"component", conn[1]>>),
      Edge("stream", <<"component", conn[2]>>, <<"head", 0>>),
      Edge("stream", <<"head">>, <<"file_sink">>) }

ConnectFile ==
    /\ fn = "run_file_source"
    /\ pc = "connect"
    /\ edges' = IF connections = None THEN DefaultEdges
                ELSE ExplicitEdges(connections)
    /\ pc' = Succ(pc)
    /\ UNCHANGED <<args, err, running, sleeps, flow, sink>>

\* connections[0] of None raises TypeError before anything is connected
ConnectMsg ==
    /\ fn = "run_msg_source"
    /\ pc = "connect"
    /\ IF connections = None
       THEN Raise("TypeError") /\ UNCHANGED edges
       ELSE /\ edges' = MsgEdges(connections)
            /\ pc' = Succ(pc)
            /\ err' = err
    /\ UNCHANGED <<args, running, sleeps, flow, sink>>

\* top.run(max_noutput_items=n_items) is start() followed by wait()
Run ==
    /\ pc = "run"
    /\ running' = TRUE
    /\ pc' = Succ(pc)
    /\ UNCHANGED <<args, err, edges, sleeps, flow, sink>>

\* top.start(max_noutput_items=n_items)
Start ==
    /\ pc = "start"
    /\ running' = TRUE
    /\ pc' = Succ(pc)
    /\ UNCHANGED <<args, err, edges, sleeps, flow, sink>>

\* variant: a loop that gives up after MaxSleeps sleeps
LoopCondTimeout(written, slept) ==
    written < out_spec.n_items /\ slept < MaxSleeps

\* while head.nitems_written(0) < out_spec["n_items"]

LoopCond(written, slept) == written < out_spec.n_items

\* time.sleep(1e-3), then the condition is read again
Sleep ==
    /\ pc = "poll"
    /\ LoopCond(head_written, sleeps)
    /\ sleeps < MaxSleeps
    /\ sleeps' = sleeps + 1
    /\ UNCHANGED <<args, pc, err, edges, running, flow, sink>>

ExitLoop ==
    /\ pc = "poll"
    /\ ~LoopCond(head_written, sleeps)
    /\ pc' = Succ(pc)
    /\ UNCHANGED <<args, err, edges, running, sleeps, flow, sink>>

\* variant: top.stop() executed
AfterLoopStopped(r) == FALSE

\* what the statements after the loop do to the graph: top.stop() is
\* commented out, so nothing

AfterLoop(r) == r

\* print("Completed simulation"), and the function returns
Return ==
    /\ pc = "return"
    /\ running' = AfterLoop(running)
    /\ pc' = Succ(pc)
    /\ UNCHANGED <<args, err, edges, sleeps, flow, sink>>

\* ---------------------------------------------------------- the blocks
Connected(kind, from, to) ==
    \E e \in edges : e.kind = kind /\ e.src[1] = from /\ e.dst[1] = to

\* the deterministic input array: item i of the file
Input(i) == i

\* the file source is at end of file and does not rewind
SrcDone == ~file_spec.repeat /\ src_pos = file_spec.len

\* file_source.work: the next item of the file, rewinding at the end of
\* the file when repeat is set
FileSourceWork ==
    /\ running
    /\ Connected("stream", "file_src", "component")
    /\ Len(src_buf) < BufCap
    /\ file_spec.len > 0
    /\ ~SrcDone
    /\ LET at == IF src_pos = file_spec.len THEN 0 ELSE src_pos
       IN  /\ src_buf' = Append(src_buf, Input(at + 1))
           /\ src_pos' = at + 1
    /\ UNCHANGED <<args, caller, msg_queue, comp_pending, comp_buf,
                   head_written, head_buf, sink>>

\* message_strobe: posts the message once per period, for ever
StrobeFire ==
    /\ running
    /\ Connected("msg", "source", "component")
    /\ msg_queue < MaxQueue
    /\ msg_queue' = msg_queue + 1
    /\ UNCHANGED <<args, caller, src_pos, src_buf, comp_pending, comp_buf,
                   head_written, head_buf, sink>>

\* variant: a component that ignores its gain
TransformIdentity(x) == x

\* blocks.multiply_const_cc(gain)

Transform(x) == x * component.gain

\* the component on its stream input: one item in, one item out
ComponentWork ==
    /\ running
    /\ Connected("stream", "component", "head")
    /\ src_buf # <<>>
    /\ Len(comp_buf) < BufCap
    /\ comp_buf' = Append(comp_buf, Transform(Head(src_buf)))
    /\ src_buf' = Tail(src_buf)
    /\ UNCHANGED <<args, caller, src_pos, msg_queue, comp_pending,
                   head_written, head_buf, sink>>

\* the component on its message input: per_msg items for each message
ComponentHandleMsg ==
    /\ running
    /\ msg_queue > 0
    /\ comp_pending = 0
    /\ msg_queue' = msg_queue - 1
    /\ comp_pending' = component.per_msg
    /\ UNCHANGED <<args, caller, src_pos, src_buf, comp_buf,
                   head_written, head_buf, sink>>

ComponentEmit ==
    /\ running
    /\ Connected("stream", "component", "head")
    /\ comp_pending > 0
    /\ Len(comp_buf) < BufCap
    /\ comp_buf' = Append(comp_buf, component.gain)
    /\ comp_pending' = comp_pending - 1
    /\ UNCHANGED <<args, caller, src_pos, src_buf, msg_queue,
                   head_written, head_buf, sink>>

\* variant: a head that lets one item too many through
HeadRoomOffByOne(written) == written <= out_spec.n_items

\* head.work: copies items while fewer than n_items have been written

HeadRoom(written) == written < out_spec.n_items

HeadWork ==
    /\ running
    /\ Connected("stream", "component", "head")
    /\ comp_buf # <<>>
    /\ HeadRoom(head_written)
    /\ Len(head_buf) < BufCap
    /\ head_buf' = Append(head_buf, Head(comp_buf))
    /\ comp_buf' = Tail(comp_buf)
    /\ head_written' = head_written + 1
    /\ UNCHANGED <<args, caller, src_pos, src_buf, msg_queue, comp_pending,
                   sink>>

\* file_sink.work: appends the item to the file
FileSinkWork ==
    /\ running
    /\ Connected("stream", "head", "file_sink")
    /\ head_buf # <<>>
    /\ out_file' = Append(out_file, Head(head_buf))
    /\ head_buf' = Tail(head_buf)
    /\ UNCHANGED <<args, caller, src_pos, src_buf, msg_queue, comp_pending,
                   comp_buf, head_written, out_exists>>

\* a block is done when it says so or when its upstream is done and its
\* input is drained
CompDone == SrcDone /\ src_buf = <<>>
HeadDone == ~HeadRoom(head_written) \/ (CompDone /\ comp_buf = <<>>)
SinkDone == HeadDone /\ head_buf = <<>>

\* wait() returns once every block is done; run_file_source returns
RunReturn ==
    /\ pc = "wait"
    /\ SinkDone
    /\ running' = FALSE
    /\ pc' = Succ(pc)
    /\ UNCHANGED <<args, err, edges, sleeps, flow, sink>>

Next ==
    \/ NewFileSource
    \/ NewMessageStrobe
    \/ NewHead
    \/ NewFileSink
    \/ ConnectFile
    \/ ConnectMsg
    \/ Run
    \/ RunReturn
    \/ Start
    \/ Sleep
    \/ ExitLoop
    \/ Return
    \/ FileSourceWork
    \/ StrobeFire
    \/ ComponentWork
    \/ ComponentHandleMsg
    \/ ComponentEmit
    \/ HeadWork
    \/ FileSinkWork

Spec == Init /\ [][Next]_vars

\* ================================================================ claims
Returned == pc = "done"
FileRun == fn = "run_file_source"
MsgRun == fn = "run_msg_source"
N == out_spec.n_items

Min(a, b) == IF a < b THEN a ELSE b

\* input[:k] * c, with the slice semantics of the example's arrays
Scaled(k) == [i \in 1..Min(k, file_spec.len) |-> Input(i) * component.gain]

\* C1, as stated: whatever the input length and the repeat flag, a
\* returned run_file_source leaves exactly n_items items in the output.
C1_AnyInput == FileRun /\ Returned => Len(out_file) = N

\* C1, amended: a returned run_file_source leaves exactly n_items items
\* when repeat is set or the input holds at least n_items items; with
\* repeat off and a shorter input it leaves as many items as the input has.
C1_OutputCount ==
    FileRun /\ Returned =>
        Len(out_file) = IF file_spec.repeat \/ file_spec.len >= N
                        THEN N ELSE file_spec.len

C1_Witness ==
    /\ FileRun /\ Returned
    /\ file_spec.repeat /\ file_spec.len < N
    /\ Len(out_file) = N

\* C2: run_msg_source returns only once head.nitems_written(0) has reached
\* n_items, and at the step in which it returns the output file holds
\* exactly n_items items.
C2_ReturnsWithFullFile ==
    [][MsgRun /\ ~Returned /\ Returned' =>
          head_written' >= N /\ Len(out_file') = N]_vars

\* C3: run_file_source with connections=None builds exactly the edges of
\* the descriptor (0,0): file source -> component port 0, component port
\* 0 -> head, head -> file sink.
C3_DefaultIsZeroZero ==
    FileRun /\ connections \in {None, <<0, 0>>} /\ pc \in {"run", "wait", "done"} =>
        edges = { [kind |-> "stream", src |-> <<"file_src", 0>>,
                   dst |-> <<"component", 0>>],
                  [kind |-> "stream", src |-> <<"component", 0>>,
                   dst |-> <<"head", 0>>],
                  [kind |-> "stream", src |-> <<"head", 0>>,
                   dst |-> <<"file_sink", 0>>] }

C3_Witness == FileRun /\ connections = None /\ pc = "run" /\ edges # {}

\* C4: with an explicit descriptor (p_in, p_out) both entry points connect
\* their source to component port p_in and component port p_out to the
\* head, and no edge touches another port of the component.
C4_ExplicitPorts ==
    connections # None /\ pc \in {"run", "start", "wait", "poll", "return", "done"} =>
        /\ \E e \in edges :
              /\ e.src[1] = IF FileRun THEN "file_src" ELSE "source"
              /\ e.dst = <<"component", connections[1]>>
        /\ \E e \in edges :
              /\ e.src = <<"component", connections[2]>>
              /\ e.dst = <<"head", 0>>
        /\ \A e \in edges :
              /\ e.dst[1] = "component" => e.dst[2] = connections[1]
              /\ e.src[1] = "component" => e.src[2] = connections[2]

C4_Witness ==
    /\ connections # None /\ connections[1] # connections[2]
    /\ pc \in {"run", "start"} /\ edges # {}

\* C5: with an unsupported element type tag in file_spec or out_spec the
\* call never returns normally and never creates the output file; the error
\* it raises is a type error (when the input file is empty and only the
\* out_spec tag is unsupported, the file source may reject the file first).
UnsupportedTag ==
    (FileRun /\ file_spec.type \notin DTYPE) \/ out_spec.type \notin DTYPE

C7_NoTimeout ==
    MsgRun =>
        /\ pc \in {"return", "done"} => head_written >= N
        /\ component.per_msg = 0 => pc \notin {"return", "done"}

C7_Witness ==
    /\ MsgRun /\ component.per_msg = 0
    /\ pc = "poll" /\ sleeps = MaxSleeps /\ msg_queue = 0

\* C8: from top.start on, and still when run_msg_source has returned, the
\* graph is running: this layer never stops it.
C8_NeverStopped ==
    MsgRun /\ pc \in {"poll", "return", "done"} => running

C8_Witness == MsgRun /\ Returned /\ running /\ Len(out_file) = N

\* C9: the output file never holds more than n_items items and
\* head.nitems_written(0) never decreases, also after run_msg_source has
\* returned and the message strobe keeps firing.
C9_BoundedAndMonotone ==
    /\ [](Len(out_file) <= N /\ head_written <= N)
    /\ [][head_written' >= head_written]_vars

C9_Witness ==
    /\ MsgRun /\ Returned
    /\ Len(out_file) = N
    /\ comp_buf # <<>> /\ msg_queue > 0

====
